---------------------------- MODULE Spec2Model ----------------------------
(***************************************************************************)
(* State-machine model of src/app.py: the Bitbucket -> Port synchroniser.  *)
(*                                                                         *)
(* The program is sequential.  Its state is the module-level rate window   *)
(* (request_count, rate_limit_start), the wall clock, the stack of live    *)
(* get_paginated_resource generators, and the position of the main script. *)
(* Every HTTP response is an input: its status, its `values` and its       *)
(* `nextPageStart` are drawn from small sets.                              *)
(*                                                                         *)
(* Four specifications share these definitions:                            *)
(*   SpecFetch  a driver that calls get_paginated_resource,                *)
(*              get_single_project and create_project_webhook in any order *)
(*              while time passes;                                         *)
(*   Spec       one run of the __main__ block, any response to any request;*)
(*   SpecSync   the __main__ block run twice against one fixed source,     *)
(*              with a journal of what each run upserted and registered;   *)
(*   SpecMap    process_pullrequest_entities applied to one batch.         *)
(***************************************************************************)
EXTENDS Integers, Sequences, FiniteSets

(***************************************************************************)
(* Program constants.  RATE_LIMIT (1000) and RATE_PERIOD (3600) are scaled *)
(* down: the code only compares request_count with RATE_LIMIT and the      *)
(* elapsed time with RATE_PERIOD.                                          *)
(***************************************************************************)
RATE_LIMIT == 2

RATE_PERIOD == 2

HTTP_OK == 200

HTTP_NOT_FOUND == 404

HTTP_SERVER_ERROR == 500

HTTP_INVALID_MAPPING == 442

(***************************************************************************)
(* Bounds of the model.                                                    *)
(***************************************************************************)
\* requests one generator may send before the model stops following it
MaxPages == 3

\* the same, for the generators of a run of the main script
MaxRunPages == 2

\* largest nextPageStart a response carries
MaxCursor == 1

\* source-API requests the driver of SpecFetch sends
MaxRequests == 5

\* seconds one HTTP request may take (SpecFetch)
MaxLatency == 1

\* longest `participants` array of a pull request (SpecMap)
MaxParticipants == 2

VARIABLES
    request_count,     \* global request_count
    elapsed,           \* time.time() - rate_limit_start: the age of the rate window
    tick,              \* the seconds the last step took, and whether it ran line 214
    gens,              \* stack of live get_paginated_resource generators
    pc,                \* position of the main script (or of the driver)
    sent,              \* driver: source-API requests sent so far
    served,            \* driver: responses served to the current generator
    starts,            \* driver: params.get("start") of each request of the current generator
    yielded,           \* driver: batches the current generator yielded
    outcome,           \* driver: how the last call ended
    filter,            \* BITBUCKET_PROJECTS_FILTER
    fetched,           \* line 438: the projects get_single_project returned so far
    port_webhook_url,  \* line 441
    projects_batch,    \* line 444
    pi,                \* index of `project` in projects_batch (line 448)
    repositories_batch, \* line 399
    ri,                \* index of the repository being enriched or traversed
    pr_params,         \* pr_params["start"] of get_repository_pull_requests
    matching_webhooks, \* line 130, while the webhook list is read
    webhooks,          \* line 450: what get_or_create_project_webhook returned
    response,          \* status and webhook URL of the response the last step received
    last_batch,        \* the records the last step handed to a process_* function
    mapped,            \* the entities the last step upserted, in order
    crash,             \* the exception that ended the run, if any
    source,            \* what the source answers: anything, or the content of a fixed source
    created,           \* the webhook registrations created so far ("port", project keys)
    run,               \* 1 for the first run of the script, 2 for a second one
    journal,           \* against a fixed source: the upserts and webhook calls of this run, in order
    first              \* the journal of the first run, once it has ended

rateVars == <<request_count, elapsed>>

testVars == <<sent, served, starts, yielded, outcome>>

\* the variables of the main script, which the driver leaves alone
runVars == <<filter, fetched, port_webhook_url, projects_batch, pi,
             repositories_batch, ri, pr_params, matching_webhooks, webhooks,
             response, last_batch, mapped, crash, source, created, run, journal,
             first>>

\* what a step of a run leaves alone unless it says otherwise
keptVars == <<source, run, first>>

vars == <<request_count, elapsed, tick, gens, pc,
          sent, served, starts, yielded, outcome,
          filter, fetched, port_webhook_url, projects_batch, pi,
          repositories_batch, ri, pr_params, matching_webhooks, webhooks,
          response, last_batch, mapped, crash, source, created, run, journal, first>>

(***************************************************************************)
(* Values.  Python's None is the empty tuple, a present integer n is <<n>>.*)
(***************************************************************************)
None == <<>>

Cursors == {None} \cup {<<n>> : n \in 0..MaxCursor}

\* Python truthiness of next_page_start: None and 0 are false
Truthy(c) == c # None /\ c # <<0>>

ErrorStatuses == {HTTP_NOT_FOUND, HTTP_SERVER_ERROR}

\* what the run keeps of a response: its status and, for a sink response,
\* integration.url
Received(status, url) == [status |-> status, url |-> url]

\* no response: the last step sent no request
NoResponse == Received(0, None)

NoCrash == [error |-> "none", at |-> "none"]

\* a step that took d seconds; new_window: it assigned rate_limit_start (line 214)
Tick(d, new_window) == [took |-> d, new_window |-> new_window]

NoTick == Tick(0, FALSE)

\* a source that may answer anything to any request
AnySource == [fixed |-> FALSE]

\* source objects, with the fields the code reads
User(e) == [emailAddress |-> e]

Project(k) == [key |-> k]

Repository(k, s) == [slug |-> s, project |-> k]

\* `author` is author.user.emailAddress; `participants`, when the source sends
\* it, is the sequence of participants[j].user.emailAddress
PullRequest(s, i) == [id |-> i, repository |-> s, author |-> "u1"]

\* a pull request without `id`
NoIdPullRequest(s) == [repository |-> s, author |-> "u1"]

Emails == {"u1", "u2"}

\* the sequences over S of length at most n
SeqsUpTo(S, n) == UNION {[1..k -> S] : k \in 0..n}

\* pull requests with an author and with or without a `participants` array
DetailedPullRequests ==
    {[id |-> 1, repository |-> "a", author |-> e] : e \in Emails}
    \cup {[id |-> 1, repository |-> "a", author |-> e, participants |-> ps] :
             e \in Emails, ps \in SeqsUpTo(Emails, MaxParticipants)}

Webhook(u) == [url |-> u]

SINK_URL == "https://ingest/bitbucket_mapper"

\* the `values` arrays each path may serve
TestValues == {<<1>>, <<2>>}

UserValues == {<<User("u1")>>}

ProjectValues == {<<Project("P1")>>, <<Project("P1"), Project("P2")>>}

RepositoryValues(k) ==
    {<<>>, <<Repository(k, "a")>>, <<Repository(k, "a"), Repository(k, "b")>>}

CommitValues == {<<>>, <<"c1">>}

ReadmeValues == {<<>>}

PullRequestValues(s) ==
    {<<PullRequest(s, 1)>>, <<PullRequest(s, 1), PullRequest(s, 2)>>,
     <<PullRequest(s, 1), NoIdPullRequest(s), PullRequest(s, 2)>>}

WebhookValues ==
    {<<>>, <<Webhook("https://other")>>, <<Webhook("https://other"), Webhook(SINK_URL)>>}

\* the responses of a paginated path whose `values` are drawn from V
Responses(V) ==
    {[status |-> HTTP_OK, values |-> v, nextPageStart |-> c] :
        v \in V, c \in Cursors}
    \cup {[status |-> s, values |-> <<>>, nextPageStart |-> None] : s \in ErrorStatuses}

(***************************************************************************)
(* get_paginated_resource.  A generator frame holds its locals; `started`  *)
(* is false until the first next(), which runs the body up to the first    *)
(* request.                                                                *)
(***************************************************************************)
NewGen(kind) ==
    [kind |-> kind, started |-> FALSE, next_page_start |-> None, n |-> 0]

Top == gens[Len(gens)]

Pop == SubSeq(gens, 1, Len(gens) - 1)

Push(f) == Append(gens, f)

ReplaceTop(f) == [gens EXCEPT ![Len(gens)] = f]

\* line 206
LimitReached == request_count >= RATE_LIMIT

\* lines 207-210; elapsed is elapsed_time
SleepTime == IF elapsed < RATE_PERIOD THEN RATE_PERIOD - elapsed ELSE 0

\* lines 206-214 run once, on the generator's first next(); the loop of the
\* later requests (lines 221-242) does not read the rate window
ChecksRate(f) == ~f.started

\* the top generator may send its next request
MaySend(f) == ~ChecksRate(f) \/ ~LimitReached

\* lines 217, 223-224: params["start"] is (re)written only for a true cursor.
\* The dict is a fresh one, except for the pull-request generators, which all
\* write to the caller's pr_params (line 423)
StartSent(f) ==
    IF Truthy(f.next_page_start) THEN f.next_page_start
    ELSE IF f.kind = "prs" THEN pr_params ELSE None

\* line 229: counted after raise_for_status and response.json()
Counted(r) == r.status = HTTP_OK

\* a deviating policy, for comparison: every error status ends the sequence quietly
IsAnyError(r) == r.status # HTTP_OK

\* line 247
IsNotFound(r) == r.status = HTTP_NOT_FOUND

\* lines 238-242
IsLastPage(r) == ~Truthy(r.nextPageStart)

\* a deviating fetcher, for comparison: the newest batch is delivered first
EmitFirst(batches, r) == <<r.values>> \o batches

\* lines 231-235
Emit(batches, r) == Append(batches, r.values)

\* the frame after one iteration of the while loop that got response r
Advanced(f, r) ==
    [f EXCEPT !.started = TRUE, !.next_page_start = r.nextPageStart, !.n = @ + 1]

\* what the generator does with response r: yield and go on, yield and end,
\* return at a 404, or raise
Step(r) ==
    IF r.status = HTTP_OK
    THEN IF IsLastPage(r) THEN "last" ELSE "more"
    ELSE IF IsNotFound(r) THEN "return" ELSE "raise"

\* one request of the top generator, lines 222-229; d is the time it takes
Fetch(r, d) ==
    /\ MaySend(Top)
    /\ elapsed' = elapsed + d
    /\ tick' = Tick(d, FALSE)
    /\ request_count' = IF Counted(r) THEN request_count + 1 ELSE request_count

\* a source-API request sent outside get_paginated_resource (lines 258-261,
\* 171-176): the rate window is neither read nor written
Direct(d) ==
    /\ elapsed' = elapsed + d
    /\ tick' = Tick(d, FALSE)
    /\ UNCHANGED request_count

\* the positions at which the consumer has called next() on the top generator
FetchPositions == {"test", "users", "projects", "repos", "commits", "readme", "prs", "hooks"}

\* the top generator was just entered with the limit reached (line 206)
AtLimit ==
    /\ pc \in FetchPositions
    /\ gens # <<>>
    /\ ChecksRate(Top)
    /\ LimitReached

\* lines 207-210: time.sleep(sleep_time)
RateLimitWait ==
    /\ AtLimit
    /\ elapsed < RATE_PERIOD
    /\ elapsed' = elapsed + SleepTime
    /\ tick' = Tick(SleepTime, FALSE)
    /\ response' = NoResponse
    /\ last_batch' = <<>>
    /\ mapped' = <<>>
    /\ UNCHANGED <<request_count, gens, pc, testVars, filter, fetched,
                   port_webhook_url, projects_batch, pi, repositories_batch, ri,
                   pr_params, matching_webhooks, webhooks, crash, keptVars,
                   created, journal>>

\* a deviating reset, for comparison: the window restarts without the wait
EarlyReset ==
    /\ AtLimit
    /\ request_count' = 0
    /\ elapsed' = 0
    /\ tick' = Tick(0, TRUE)
    /\ response' = NoResponse
    /\ last_batch' = <<>>
    /\ mapped' = <<>>
    /\ UNCHANGED <<gens, pc, testVars, filter, fetched,
                   port_webhook_url, projects_batch, pi, repositories_batch, ri,
                   pr_params, matching_webhooks, webhooks, crash, keptVars,
                   created, journal>>

\* lines 212-214
RateLimitReset ==
    /\ AtLimit
    /\ ~(elapsed < RATE_PERIOD)
    /\ request_count' = 0
    /\ elapsed' = 0
    /\ tick' = Tick(0, TRUE)
    /\ response' = NoResponse
    /\ last_batch' = <<>>
    /\ mapped' = <<>>
    /\ UNCHANGED <<gens, pc, testVars, filter, fetched,
                   port_webhook_url, projects_batch, pi, repositories_batch, ri,
                   pr_params, matching_webhooks, webhooks, crash, keptVars,
                   created, journal>>

(***************************************************************************)
(* SpecFetch: a driver of the fetcher.                                     *)
(***************************************************************************)
Latency == 0..MaxLatency

InitFetch ==
    /\ request_count = 0
    /\ elapsed = 0
    /\ tick = NoTick
    /\ gens = <<>>
    /\ pc = "idle"
    /\ sent = 0
    /\ served = <<>>
    /\ starts = <<>>
    /\ yielded = <<>>
    /\ outcome = "none"
    /\ filter = <<>>
    /\ fetched = <<>>
    /\ port_webhook_url = None
    /\ projects_batch = <<>>
    /\ pi = 0
    /\ repositories_batch = <<>>
    /\ ri = 0
    /\ pr_params = None
    /\ matching_webhooks = <<>>
    /\ webhooks = "unset"
    /\ response = NoResponse
    /\ last_batch = <<>>
    /\ mapped = <<>>
    /\ crash = NoCrash
    /\ source = AnySource
    /\ created = {}
    /\ run = 1
    /\ journal = <<>>
    /\ first = <<>>

\* gen = get_paginated_resource(path): nothing of the body runs yet
TestCall ==
    /\ pc = "idle"
    /\ sent < MaxRequests
    /\ gens' = Push(NewGen("test"))
    /\ pc' = "test"
    /\ served' = <<>>
    /\ starts' = <<>>
    /\ yielded' = <<>>
    /\ outcome' = "running"
    /\ tick' = NoTick
    /\ UNCHANGED <<rateVars, sent, runVars>>

\* next(gen)
TestPage ==
    /\ pc = "test"
    /\ sent < MaxRequests
    /\ Top.n < MaxPages
    /\ \E r \in Responses(TestValues), d \in Latency :
        /\ Fetch(r, d)
        /\ sent' = sent + 1
        /\ served' = Append(served, r)
        /\ starts' = Append(starts, StartSent(Top))
        /\ yielded' = IF r.status = HTTP_OK THEN Emit(yielded, r) ELSE yielded
        /\ IF Step(r) = "more"
           THEN /\ gens' = ReplaceTop(Advanced(Top, r))
                /\ pc' = "test"
                /\ outcome' = "running"
           ELSE /\ gens' = Pop
                /\ pc' = "idle"
                /\ outcome' = IF Step(r) = "raise" THEN "raised" ELSE "returned"
    /\ UNCHANGED runVars

\* get_single_project(key)
TestSingleProject ==
    /\ pc = "idle"
    /\ sent < MaxRequests
    /\ \E s \in {HTTP_OK} \cup ErrorStatuses, d \in Latency :
        /\ Direct(d)
        /\ outcome' = IF s = HTTP_OK THEN "project" ELSE "project_raised"
    /\ sent' = sent + 1
    /\ served' = <<>>
    /\ starts' = <<>>
    /\ yielded' = <<>>
    /\ UNCHANGED <<gens, pc, runVars>>

\* create_project_webhook(key, url, events): HTTPError is caught (lines 179-183)
TestCreateWebhook ==
    /\ pc = "idle"
    /\ sent < MaxRequests
    /\ \E s \in {HTTP_OK} \cup ErrorStatuses, d \in Latency :
        /\ Direct(d)
        /\ outcome' = IF s = HTTP_OK THEN "webhook" ELSE "webhook_none"
    /\ sent' = sent + 1
    /\ served' = <<>>
    /\ starts' = <<>>
    /\ yielded' = <<>>
    /\ UNCHANGED <<gens, pc, runVars>>

NextFetch ==
    \/ TestCall
    \/ TestPage
    \/ TestSingleProject
    \/ TestCreateWebhook
    \/ RateLimitWait
    \/ RateLimitReset

SpecFetch == InitFetch /\ [][NextFetch]_vars

(***************************************************************************)
(* Entity mapping, lines 281-371: the (blueprint, identifier) each         *)
(* process_* function upserts.                                             *)
(***************************************************************************)
\* line 349: str(pr["id"])
Str(i) == CASE i = 1 -> "1" [] i = 2 -> "2" [] OTHER -> "n"

Entity(blueprint, identifier) == [blueprint |-> blueprint, identifier |-> identifier]

\* process_user_entities
UserEntities(batch) ==
    [i \in 1..Len(batch) |-> Entity("bitbucketUser", batch[i].emailAddress)]

\* a deviating mapping, for comparison: projects are not upserted
NoProjectEntities(batch) == <<>>

\* a deviating mapping, for comparison: the identifier changes from run to run
PerRunProjectEntities(batch) ==
    [i \in 1..Len(batch) |->
        Entity("bitbucketProject", IF run = 1 THEN batch[i].key ELSE "new")]

\* process_project_entities
ProjectEntities(batch) ==
    [i \in 1..Len(batch) |-> Entity("bitbucketProject", batch[i].key)]

\* process_repository_entities, one repository
RepositoryEntity(repo) == Entity("bitbucketRepository", repo.slug)

\* the records of the batch that are handled before pr["id"] raises KeyError
\* (line 349): all of them when every record has an id
Mappable(batch) ==
    LET bad == {i \in 1..Len(batch) : "id" \notin DOMAIN batch[i]}
    IN  IF bad = {} THEN Len(batch)
        ELSE (CHOOSE i \in bad : \A j \in bad : i <= j) - 1

RaisesKeyError(batch) == Mappable(batch) < Len(batch)

\* a deviating mapping, for comparison: only the author takes part
AuthorOnly(pr) == <<pr.author>>

\* lines 367-368: [author] + [p for p in pr.get("participants", [])]
Participants(pr) ==
    <<pr.author>> \o (IF "participants" \in DOMAIN pr THEN pr.participants ELSE <<>>)

\* lines 348-370, one pull request
PullRequestEntity(pr) ==
    [blueprint |-> "bitbucketPullrequest", identifier |-> Str(pr.id),
     relations |-> [repository |-> pr.repository, participants |-> Participants(pr)]]

\* process_pullrequest_entities
PullRequestEntities(batch) ==
    [i \in 1..Mappable(batch) |-> PullRequestEntity(batch[i])]

(***************************************************************************)
(* The source and the sink.  A run either gets any response to any request *)
(* (source.fixed is false), or talks to a fixed source: the same request   *)
(* then gets the same answer, in this run and in the next, and the webhook *)
(* lists show the registrations created so far.                            *)
(***************************************************************************)
Keys == {"P1", "P2"}

\* a pull request as the source lists it, with the project of its repository
ProjectPullRequest(k, s, i) == [id |-> i, repository |-> s, author |-> "u1", project |-> k]

Page(values, cursor) == [status |-> HTTP_OK, values |-> values, nextPageStart |-> cursor]

\* the error response of a path the source fails on
Failure == [status |-> HTTP_SERVER_ERROR, values |-> <<>>, nextPageStart |-> None]

\* the requests a fixed source may fail on, every time: none, the webhook
\* lists, the webhook creations, or the README files
Troubles == {"none", "list", "create", "readme"}

\* the fixed sources: the project listing, the repositories of each project,
\* the number of pull-request pages of every repository, the webhooks every
\* project has at the start, the state of the sink's webhook, and the
\* requests that fail
Sources ==
    {[fixed |-> TRUE, listing |-> l, repos |-> [k \in Keys |-> IF k = "P1" THEN a ELSE b],
      pr_pages |-> n, hooks |-> h, sink |-> sk, trouble |-> t] :
        l \in ProjectValues \cup {<<Project("P1"), Project("P1")>>},
        a \in RepositoryValues("P1"), b \in RepositoryValues("P2"),
        n \in 1..MaxRunPages, h \in WebhookValues,
        sk \in {"registered", "absent", "down"}, t \in Troubles}

\* page `start` of the pull requests of repo: one pull request per page
PullRequestsPageOf(repo, start) ==
    LET c == IF start = None THEN 0 ELSE start[1]
    IN  Page(<<ProjectPullRequest(repo.project, repo.slug, c + 1)>>,
             IF c + 1 < source.pr_pages THEN <<c + 1>> ELSE None)

\* the webhooks of project k: those it had, and the one the program created
WebhooksOf(k) ==
    source.hooks \o (IF k \in created THEN <<Webhook(SINK_URL)>> ELSE <<>>)

\* the responses each request may get
UsersAnswers ==
    IF source.fixed THEN {Page(<<User("u1")>>, None)} ELSE Responses(UserValues)

SingleProjectAnswers == IF source.fixed THEN {HTTP_OK} ELSE {HTTP_OK} \cup ErrorStatuses

ProjectsAnswers ==
    IF source.fixed THEN {Page(source.listing, None)} ELSE Responses(ProjectValues)

RepositoriesAnswers(k) ==
    IF source.fixed THEN {Page(source.repos[k], None)} ELSE Responses(RepositoryValues(k))

CommitsAnswers == IF source.fixed THEN {Page(<<"c1">>, None)} ELSE Responses(CommitValues)

ReadmeAnswers ==
    IF ~source.fixed THEN Responses(ReadmeValues)
    ELSE IF source.trouble = "readme" THEN {Failure} ELSE {Page(<<>>, None)}

PullRequestsAnswers(repo, start) ==
    IF source.fixed THEN {PullRequestsPageOf(repo, start)}
    ELSE Responses(PullRequestValues(repo.slug))

WebhooksAnswers(k) ==
    IF ~source.fixed THEN Responses(WebhookValues)
    ELSE IF source.trouble = "list" THEN {Failure} ELSE {Page(WebhooksOf(k), None)}

CreateWebhookAnswers ==
    IF ~source.fixed THEN {HTTP_OK} \cup ErrorStatuses
    ELSE IF source.trouble = "create" THEN {HTTP_SERVER_ERROR} ELSE {HTTP_OK}

\* journal entries: an upsert of entity e made from source object o, and a
\* webhook call ("provision": the first read of a project's webhooks,
\* "create": a creation the source accepted) for project k
Upsert(e, o) == [kind |-> "upsert", entity |-> e, object |-> o]

Call(kind, k) == [kind |-> kind, entity |-> None, object |-> Project(k)]

\* the upserts of this step: add_entity_to_port for each mapped record
Upserts == [i \in 1..Len(mapped') |-> Upsert(mapped'[i], last_batch'[i])]

Journaled(calls) ==
    journal' = IF source.fixed THEN journal \o Upserts \o calls ELSE journal

\* the registrations after a creation request for `what` got response status
CreatedAfter(what, status) ==
    IF source.fixed /\ status = HTTP_OK THEN created \cup {what} ELSE created

(***************************************************************************)
(* The main script, lines 431-455.  Here is its control state; the         *)
(* operators below compute the control state a call returns to.            *)
(***************************************************************************)

Here ==
    [pc |-> pc, gens |-> gens, pi |-> pi, ri |-> ri,
     repositories_batch |-> repositories_batch, webhooks |-> webhooks,
     crash |-> crash]

Goto(c) ==
    /\ pc' = c.pc
    /\ gens' = c.gens
    /\ pi' = c.pi
    /\ ri' = c.ri
    /\ repositories_batch' = c.repositories_batch
    /\ webhooks' = c.webhooks
    /\ crash' = c.crash

\* an exception nobody catches ends the run
Crashed(error) ==
    [Here EXCEPT !.pc = "crashed", !.gens = <<>>,
                 !.crash = [error |-> error, at |-> pc]]

\* lines 444-449: the project after the i-th of `batch`, else the next batch
NextProject(g, batch, i, w) ==
    IF i < Len(batch)
    THEN [Here EXCEPT !.pc = "repos", !.gens = Append(g, NewGen("repos")),
                      !.pi = i + 1, !.ri = 0, !.repositories_batch = <<>>,
                      !.webhooks = w]
    ELSE [Here EXCEPT !.pc = IF g # <<>> THEN "projects" ELSE "done",
                      !.gens = g, !.pi = 0, !.ri = 0,
                      !.repositories_batch = <<>>, !.webhooks = w]

\* a deviating guard, for comparison: provisioning never looks at the sink URL
NeverSkipsProvisioning == FALSE

\* line 128
SkipsProvisioning == port_webhook_url = None

\* lines 450, 127-128, 152-154: get_or_create_project_webhook is entered
Provision(g) ==
    IF SkipsProvisioning
    THEN NextProject(g, projects_batch, pi, "None")
    ELSE [Here EXCEPT !.pc = "hooks", !.gens = Append(g, NewGen("hooks")),
                      !.ri = 0, !.repositories_batch = <<>>]

\* line 399 after line 415: the repositories generator is resumed
ResumeRepositories(g) ==
    IF g # <<>> /\ g[Len(g)].kind = "repos"
    THEN [Here EXCEPT !.pc = "repos", !.gens = g, !.ri = 0,
                      !.repositories_batch = <<>>]
    ELSE Provision(g)

\* a deviating selection, for comparison: the listing is paginated whatever the filter
SelectListing == [Here EXCEPT !.pc = "port_get", !.gens = <<NewGen("projects")>>]

\* lines 436-440
SelectProjects ==
    IF filter # <<>>
    THEN [Here EXCEPT !.pc = "single", !.gens = <<>>]
    ELSE [Here EXCEPT !.pc = "port_get", !.gens = <<NewGen("projects")>>]

\* the generator stack after the top generator handled response r
Rest(r) == IF Step(r) = "more" THEN ReplaceTop(Advanced(Top, r)) ELSE Pop

Filters == {<<>>, <<"P1", "P2">>}

Init ==
    /\ request_count = 0
    /\ elapsed = 0
    /\ tick = NoTick
    /\ gens = <<NewGen("users")>>
    /\ pc = "users"
    /\ sent = 0
    /\ served = <<>>
    /\ starts = <<>>
    /\ yielded = <<>>
    /\ outcome = "none"
    /\ filter \in Filters
    /\ fetched = <<>>
    /\ port_webhook_url = None
    /\ projects_batch = <<>>
    /\ pi = 0
    /\ repositories_batch = <<>>
    /\ ri = 0
    /\ pr_params = None
    /\ matching_webhooks = <<>>
    /\ webhooks = "unset"
    /\ response = NoResponse
    /\ last_batch = <<>>
    /\ mapped = <<>>
    /\ crash = NoCrash
    /\ source = AnySource
    /\ created = {}
    /\ run = 1
    /\ journal = <<>>
    /\ first = <<>>

\* lines 433-435
UsersPage ==
    /\ pc = "users"
    /\ Top.n < MaxRunPages
    /\ \E r \in UsersAnswers :
        /\ Fetch(r, 0)
        /\ response' = Received(r.status, None)
        /\ last_batch' = r.values
        /\ mapped' = UserEntities(r.values)
        /\ Goto(CASE Step(r) = "raise" -> Crashed("HTTPError")
                  [] Step(r) = "more" -> [Here EXCEPT !.gens = Rest(r)]
                  [] OTHER -> SelectProjects)
    /\ Journaled(<<>>)
    /\ created' = created
    /\ UNCHANGED <<keptVars, testVars, filter, fetched, port_webhook_url, projects_batch,
                   pr_params, matching_webhooks>>

\* line 438, one call of get_single_project (lines 257-262)
GetSingleProject ==
    /\ pc = "single"
    /\ \E s \in SingleProjectAnswers :
        /\ Direct(0)
        /\ response' = Received(s, None)
        /\ IF s = HTTP_OK
           THEN /\ fetched' = Append(fetched, Project(filter[Len(fetched) + 1]))
                /\ Goto(IF Len(fetched) + 1 = Len(filter)
                        THEN [Here EXCEPT !.pc = "port_get"] ELSE Here)
           ELSE /\ fetched' = fetched
                /\ Goto(Crashed("HTTPError"))
    /\ last_batch' = <<>>
    /\ mapped' = <<>>
    /\ Journaled(<<>>)
    /\ created' = created
    /\ UNCHANGED <<keptVars, testVars, filter, port_webhook_url, projects_batch,
                   pr_params, matching_webhooks>>

\* a sink response: its status and, when successful, integration.url (absent: None)
SinkResponses(errors) ==
    {Received(HTTP_OK, u) : u \in {None, <<SINK_URL>>}}
    \cup {Received(s, None) : s \in errors}

SinkLookupResponses == SinkResponses({HTTP_NOT_FOUND, HTTP_SERVER_ERROR})

SinkCreateResponses == SinkResponses({HTTP_INVALID_MAPPING, HTTP_SERVER_ERROR})

SinkLookupAnswers ==
    IF ~source.fixed THEN SinkLookupResponses
    ELSE IF "port" \in created \/ source.sink = "registered"
    THEN {Received(HTTP_OK, <<SINK_URL>>)}
    ELSE IF source.sink = "absent" THEN {Received(HTTP_NOT_FOUND, None)}
    ELSE {Received(HTTP_SERVER_ERROR, None)}

SinkCreateAnswers ==
    IF source.fixed THEN {Received(HTTP_OK, <<SINK_URL>>)} ELSE SinkCreateResponses

\* lines 71-73, 111-115 and 116-121, 78-80: the URL a sink response gives
UrlOf(r) == IF r.status = HTTP_OK THEN r.url ELSE None

\* a deviating lookup, for comparison: any failed lookup leads to a creation
CreatesAfterAnyError(r) == r.status # HTTP_OK

\* lines 75-77
CreatesAfter(r) == r.status = HTTP_NOT_FOUND

\* get_or_create_port_webhook, lines 63-80, up to the call of create_port_webhook
GetPortWebhook ==
    /\ pc = "port_get"
    /\ \E r \in SinkLookupAnswers :
        /\ response' = r
        /\ port_webhook_url' = UrlOf(r)
        /\ pc' = IF CreatesAfter(r) THEN "port_post" ELSE "projects"
    /\ last_batch' = <<>>
    /\ mapped' = <<>>
    /\ tick' = NoTick
    /\ Journaled(<<>>)
    /\ created' = created
    /\ UNCHANGED <<keptVars, rateVars, testVars, gens, filter, fetched, projects_batch, pi,
                   repositories_batch, ri, pr_params, matching_webhooks,
                   webhooks, crash>>

\* create_port_webhook, lines 83-121
CreatePortWebhook ==
    /\ pc = "port_post"
    /\ \E r \in SinkCreateAnswers :
        /\ response' = r
        /\ port_webhook_url' = UrlOf(r)
    /\ pc' = "projects"
    /\ last_batch' = <<>>
    /\ mapped' = <<>>
    /\ tick' = NoTick
    /\ Journaled(<<>>)
    /\ created' = CreatedAfter("port", response'.status)
    /\ UNCHANGED <<keptVars, rateVars, testVars, gens, filter, fetched, projects_batch, pi,
                   repositories_batch, ri, pr_params, matching_webhooks,
                   webhooks, crash>>

\* lines 444-446 when projects is the one-element tuple of line 438
FilteredProjects ==
    /\ pc = "projects"
    /\ filter # <<>>
    /\ projects_batch' = fetched
    /\ last_batch' = fetched
    /\ mapped' = ProjectEntities(fetched)
    /\ Goto(NextProject(<<>>, fetched, 0, webhooks))
    /\ response' = NoResponse
    /\ tick' = NoTick
    /\ Journaled(<<>>)
    /\ created' = created
    /\ UNCHANGED <<keptVars, rateVars, testVars, filter, fetched, port_webhook_url,
                   pr_params, matching_webhooks>>

\* lines 444-446 when projects is the generator of line 440
ProjectsPage ==
    /\ pc = "projects"
    /\ filter = <<>>
    /\ Top.n < MaxRunPages
    /\ \E r \in ProjectsAnswers :
        /\ Fetch(r, 0)
        /\ response' = Received(r.status, None)
        /\ projects_batch' = IF r.status = HTTP_OK THEN r.values ELSE projects_batch
        /\ last_batch' = r.values
        /\ mapped' = ProjectEntities(r.values)
        /\ Goto(CASE Step(r) = "raise" -> Crashed("HTTPError")
                  [] Step(r) = "return" -> [Here EXCEPT !.pc = "done", !.gens = <<>>]
                  [] OTHER -> NextProject(Rest(r), r.values, 0, webhooks))
    /\ Journaled(<<>>)
    /\ created' = created
    /\ UNCHANGED <<keptVars, testVars, filter, fetched, port_webhook_url, pr_params,
                   matching_webhooks>>

\* get_repositories, lines 397-399
RepositoriesPage ==
    /\ pc = "repos"
    /\ Top.n < MaxRunPages
    /\ \E r \in RepositoriesAnswers(projects_batch[pi].key) :
        /\ Fetch(r, 0)
        /\ response' = Received(r.status, None)
        /\ Goto(CASE Step(r) = "raise" -> Crashed("HTTPError")
                  [] Step(r) = "return" -> Provision(Pop)
                  [] r.status = HTTP_OK /\ r.values = <<>> -> ResumeRepositories(Rest(r))
                  [] OTHER ->
                       [Here EXCEPT !.pc = "commits",
                                    !.gens = Append(Rest(r), NewGen("commits")),
                                    !.ri = 1, !.repositories_batch = r.values])
    /\ last_batch' = <<>>
    /\ mapped' = <<>>
    /\ Journaled(<<>>)
    /\ created' = created
    /\ UNCHANGED <<keptVars, testVars, filter, fetched, port_webhook_url, projects_batch,
                   pr_params, matching_webhooks>>

\* get_latest_commit, lines 385-394: it returns at the first non-empty batch,
\* at the end of the sequence, or at any exception
LatestCommitFound(r) ==
    \/ Step(r) \in {"raise", "return", "last"}
    \/ r.values # <<>>

\* lines 404-412, one request of one get_latest_commit
CommitsPage ==
    /\ pc = "commits"
    /\ Top.n < MaxRunPages
    /\ \E r \in CommitsAnswers :
        /\ Fetch(r, 0)
        /\ response' = Received(r.status, None)
        /\ Goto(IF ~LatestCommitFound(r)
                THEN [Here EXCEPT !.gens = Rest(r)]
                ELSE IF ri < Len(repositories_batch)
                THEN [Here EXCEPT !.gens = Append(Pop, NewGen("commits")),
                                  !.ri = ri + 1]
                ELSE [Here EXCEPT !.pc = "readme",
                                  !.gens = Append(Pop, NewGen("readme")),
                                  !.ri = 1])
    /\ last_batch' = <<>>
    /\ mapped' = <<>>
    /\ Journaled(<<>>)
    /\ created' = created
    /\ UNCHANGED <<keptVars, testVars, filter, fetched, port_webhook_url, projects_batch,
                   pr_params, matching_webhooks>>

\* process_repository_entities, lines 318-341: one request of one
\* get_repository_readme (lines 374-382), then the upsert of the repository
ReadmePage ==
    /\ pc = "readme"
    /\ Top.n < MaxRunPages
    /\ \E r \in ReadmeAnswers :
        /\ Fetch(r, 0)
        /\ response' = Received(r.status, None)
        /\ last_batch' = IF Step(r) \in {"last", "return"}
                    THEN <<repositories_batch[ri]>> ELSE <<>>
        /\ mapped' = IF Step(r) \in {"last", "return"}
                     THEN <<RepositoryEntity(repositories_batch[ri])>> ELSE <<>>
        /\ pr_params' = IF Step(r) \in {"last", "return"} /\ ri = Len(repositories_batch)
                        THEN None ELSE pr_params
        /\ Goto(CASE Step(r) = "raise" -> Crashed("HTTPError")
                  [] Step(r) = "more" -> [Here EXCEPT !.gens = Rest(r)]
                  [] OTHER ->
                       IF ri < Len(repositories_batch)
                       THEN [Here EXCEPT !.gens = Append(Pop, NewGen("readme")),
                                         !.ri = ri + 1]
                       ELSE [Here EXCEPT !.pc = "prs",
                                         !.gens = Append(Pop, NewGen("prs")),
                                         !.ri = 1])
    /\ Journaled(<<>>)
    /\ created' = created
    /\ UNCHANGED <<keptVars, testVars, filter, fetched, port_webhook_url, projects_batch,
                   matching_webhooks>>

\* get_repository_pull_requests, lines 418-428; the generators of one call
\* share the dict pr_params
PullRequestsPage ==
    /\ pc = "prs"
    /\ Top.n < MaxRunPages
    /\ \E r \in PullRequestsAnswers(repositories_batch[ri], StartSent(Top)) :
        /\ Fetch(r, 0)
        /\ response' = Received(r.status, None)
        /\ pr_params' = StartSent(Top)
        /\ last_batch' = r.values
        /\ mapped' = PullRequestEntities(r.values)
        /\ Goto(CASE Step(r) = "raise" -> Crashed("HTTPError")
                  [] RaisesKeyError(r.values) -> Crashed("KeyError")
                  [] Step(r) = "more" -> [Here EXCEPT !.gens = Rest(r)]
                  [] OTHER ->
                       IF ri < Len(repositories_batch)
                       THEN [Here EXCEPT !.gens = Append(Pop, NewGen("prs")),
                                         !.ri = ri + 1]
                       ELSE ResumeRepositories(Pop))
    /\ Journaled(<<>>)
    /\ created' = created
    /\ UNCHANGED <<keptVars, testVars, filter, fetched, port_webhook_url, projects_batch,
                   matching_webhooks>>

\* a deviating decision, for comparison: matches are ignored
NeverRegistered(matches) == FALSE

\* line 138
AlreadyRegistered(matches) == matches # <<>>

\* line 136
Matching(batch) == SelectSeq(batch, LAMBDA webhook : <<webhook.url>> = port_webhook_url)

\* get_or_create_project_webhook, lines 129-151: one page of the webhook list;
\* after the last one the list of matches decides
WebhooksPage ==
    /\ pc = "hooks"
    /\ Top.n < MaxRunPages
    /\ \E r \in WebhooksAnswers(projects_batch[pi].key) :
        /\ Fetch(r, 0)
        /\ response' = Received(r.status, None)
        /\ last_batch' = r.values
        /\ matching_webhooks' =
              (IF Top.started THEN matching_webhooks ELSE <<>>) \o Matching(r.values)
        /\ Goto(CASE Step(r) = "raise" -> NextProject(Pop, projects_batch, pi, "None")
                  [] Step(r) = "more" -> [Here EXCEPT !.gens = Rest(r)]
                  [] AlreadyRegistered(matching_webhooks') ->
                       NextProject(Pop, projects_batch, pi, "existing")
                  [] OTHER -> [Here EXCEPT !.pc = "hook_post", !.gens = Pop])
    /\ mapped' = <<>>
    /\ Journaled(IF Top.started THEN <<>> ELSE <<Call("provision", projects_batch[pi].key)>>)
    /\ created' = created
    /\ UNCHANGED <<keptVars, testVars, filter, fetched, port_webhook_url, projects_batch,
                   pr_params>>

\* create_project_webhook, lines 157-183
CreateProjectWebhook ==
    /\ pc = "hook_post"
    /\ \E s \in CreateWebhookAnswers :
        /\ Direct(0)
        /\ response' = Received(s, None)
        /\ Goto(NextProject(gens, projects_batch, pi,
                            IF s = HTTP_OK THEN "created" ELSE "None"))
    /\ last_batch' = <<>>
    /\ mapped' = <<>>
    /\ Journaled(IF response'.status = HTTP_OK
                 THEN <<Call("create", projects_batch[pi].key)>> ELSE <<>>)
    /\ created' = CreatedAfter(projects_batch[pi].key, response'.status)
    /\ UNCHANGED <<keptVars, testVars, filter, fetched, port_webhook_url, projects_batch,
                   pr_params, matching_webhooks>>

Next ==
    \/ UsersPage
    \/ GetSingleProject
    \/ GetPortWebhook
    \/ CreatePortWebhook
    \/ FilteredProjects
    \/ ProjectsPage
    \/ RepositoriesPage
    \/ CommitsPage
    \/ ReadmePage
    \/ PullRequestsPage
    \/ WebhooksPage
    \/ CreateProjectWebhook
    \/ RateLimitWait
    \/ RateLimitReset

Spec == Init /\ [][Next]_vars

(***************************************************************************)
(* SpecSync: the script run twice against one fixed source.                *)
(***************************************************************************)
\* the filters of Spec, and one that names a project twice
SyncFilters == Filters \cup {<<"P1", "P1">>}

\* the state of a process that starts the script, lines 14-60 and 431-433
Started ==
    /\ request_count = 0
    /\ elapsed = 0
    /\ tick = NoTick
    /\ gens = <<NewGen("users")>>
    /\ pc = "users"
    /\ fetched = <<>>
    /\ port_webhook_url = None
    /\ projects_batch = <<>>
    /\ pi = 0
    /\ repositories_batch = <<>>
    /\ ri = 0
    /\ pr_params = None
    /\ matching_webhooks = <<>>
    /\ webhooks = "unset"
    /\ response = NoResponse
    /\ last_batch = <<>>
    /\ mapped = <<>>
    /\ crash = NoCrash
    /\ journal = <<>>

InitSync ==
    /\ Started
    /\ sent = 0
    /\ served = <<>>
    /\ starts = <<>>
    /\ yielded = <<>>
    /\ outcome = "none"
    /\ filter \in SyncFilters
    /\ source \in Sources
    /\ created = {}
    /\ run = 1
    /\ first = <<>>

\* the script has ended and is started again, as a new process: the
\* configuration and the source are the same, and the registrations the
\* first run created exist
Rerun ==
    /\ pc \in {"done", "crashed"}
    /\ source.fixed
    /\ run = 1
    /\ run' = 2
    /\ first' = journal
    /\ request_count' = 0
    /\ elapsed' = 0
    /\ tick' = NoTick
    /\ gens' = <<NewGen("users")>>
    /\ pc' = "users"
    /\ fetched' = <<>>
    /\ port_webhook_url' = None
    /\ projects_batch' = <<>>
    /\ pi' = 0
    /\ repositories_batch' = <<>>
    /\ ri' = 0
    /\ pr_params' = None
    /\ matching_webhooks' = <<>>
    /\ webhooks' = "unset"
    /\ response' = NoResponse
    /\ last_batch' = <<>>
    /\ mapped' = <<>>
    /\ crash' = NoCrash
    /\ journal' = <<>>
    /\ UNCHANGED <<testVars, filter, source, created>>

NextSync ==
    \/ Next
    \/ Rerun

SpecSync == InitSync /\ [][NextSync]_vars

(***************************************************************************)
(* SpecMap: process_pullrequest_entities applied to one batch.             *)
(***************************************************************************)
PullRequestBatches ==
    {<<pr>> : pr \in DetailedPullRequests}
    \cup {<<p, q>> : p \in DetailedPullRequests, q \in DetailedPullRequests}

InitMap ==
    /\ request_count = 0
    /\ elapsed = 0
    /\ tick = NoTick
    /\ gens = <<>>
    /\ pc = "map"
    /\ sent = 0
    /\ served = <<>>
    /\ starts = <<>>
    /\ yielded = <<>>
    /\ outcome = "none"
    /\ filter = <<>>
    /\ fetched = <<>>
    /\ port_webhook_url = None
    /\ projects_batch = <<>>
    /\ pi = 0
    /\ repositories_batch = <<>>
    /\ ri = 0
    /\ pr_params = None
    /\ matching_webhooks = <<>>
    /\ webhooks = "unset"
    /\ response = NoResponse
    /\ last_batch \in PullRequestBatches
    /\ mapped = <<>>
    /\ crash = NoCrash
    /\ source = AnySource
    /\ created = {}
    /\ run = 1
    /\ journal = <<>>
    /\ first = <<>>

\* process_pullrequest_entities(pullrequest_data=last_batch), lines 344-371
MapPullRequests ==
    /\ pc = "map"
    /\ mapped' = PullRequestEntities(last_batch)
    /\ pc' = "mapped"
    /\ tick' = NoTick
    /\ UNCHANGED <<rateVars, gens, testVars, filter, fetched, port_webhook_url,
                   projects_batch, pi, repositories_batch, ri, pr_params,
                   matching_webhooks, webhooks, response, last_batch, crash,
                   keptVars, created, journal>>

NextMap == MapPullRequests

SpecMap == InitMap /\ [][NextMap]_vars

(***************************************************************************)
(* Properties of the fetcher (SpecFetch).                                  *)
(***************************************************************************)
AllSuccessful(rs) == \A i \in 1..Len(rs) : rs[i].status = HTTP_OK

\* the `values` of the successful responses of rs, in order
RECURSIVE BatchesOf(_)
BatchesOf(rs) ==
    IF rs = <<>> THEN <<>>
    ELSE LET rest == BatchesOf(SubSeq(rs, 1, Len(rs) - 1))
             last == rs[Len(rs)]
         IN  IF last.status = HTTP_OK THEN Append(rest, last.values) ELSE rest

\* C1: a sequence of successful pages yields one batch per page, in the order
\* served, and the generator has returned once a page without nextPageStart
\* was served; a 404 as the first response yields nothing and returns.
C1_PaginationTermination ==
    /\ (served # <<>> /\ AllSuccessful(served)) =>
          /\ Len(yielded) = Len(served)
          /\ \A i \in 1..Len(served) : yielded[i] = served[i].values
          /\ served[Len(served)].nextPageStart = None =>
                (pc = "idle" /\ outcome = "returned" /\ gens = <<>>)
    /\ (served # <<>> /\ served[1].status = HTTP_NOT_FOUND) =>
          (Len(served) = 1 /\ yielded = <<>> /\ pc = "idle"
           /\ outcome = "returned" /\ gens = <<>>)

C1_Witness ==
    /\ pc = "idle"
    /\ outcome = "returned"
    /\ Len(served) = 3
    /\ AllSuccessful(served)
    /\ served[3].nextPageStart = None
    /\ yielded = <<<<1>>, <<2>>, <<1>>>>

\* C2: the rate-window counter never exceeds RATE_LIMIT.
C2_CountWithinLimit == request_count <= RATE_LIMIT

\* C3: no source-API request is sent in a state where RATE_LIMIT acquisitions
\* are counted and the window is younger than RATE_PERIOD, and none is counted
\* on top of RATE_LIMIT: the wait and the reset come first.
C3_WaitAfterLimit ==
    [][sent' # sent =>
          /\ ~(request_count = RATE_LIMIT /\ elapsed < RATE_PERIOD)
          /\ request_count' <= RATE_LIMIT]_vars

\* C4: every source-API request sent is one acquisition: it adds one to the
\* counter.
C4_OneAcquisitionPerRequest ==
    [][sent' # sent => request_count' = request_count + 1]_vars

\* C5: only the last response of a sequence can be an error; the batches of
\* the pages before it are kept; a 404 ends the generator without an error, any
\* other error status is raised.
C5_FailurePolicy ==
    served # <<>> =>
        LET last == served[Len(served)]
        IN  /\ \A i \in 1..(Len(served) - 1) : served[i].status = HTTP_OK
            /\ yielded = BatchesOf(served)
            /\ last.status = HTTP_NOT_FOUND =>
                  (pc = "idle" /\ outcome = "returned" /\ gens = <<>>)
            /\ last.status \notin {HTTP_OK, HTTP_NOT_FOUND} =>
                  (pc = "idle" /\ outcome = "raised" /\ gens = <<>>)

\* a 404 on a later page, with the earlier batches kept
C5_WitnessNotFound ==
    /\ Len(served) = 3
    /\ served[3].status = HTTP_NOT_FOUND
    /\ Len(yielded) = 2
    /\ outcome = "returned"

\* C14: within one sequence no start value is sent in two requests.
C14_CursorNeverReused ==
    \A i \in 1..Len(starts) : \A j \in 1..Len(starts) :
        (i < j /\ starts[i] # None) => starts[i] # starts[j]

\* the step set request_count to 0
CountReset == request_count' = 0 /\ request_count # 0

\* rate_limit_start is time.time() - elapsed, and the step took tick'.took
\* seconds: rate_limit_start is unchanged iff the window aged by that much
StartUnchanged == elapsed' = elapsed + tick'.took

\* C19: a step that sets request_count to 0 starts a new window at the current
\* time and is taken only when RATE_PERIOD has passed since the last window
\* start; every other step leaves rate_limit_start alone and does not decrease
\* request_count.
C19_ResetOnlyWithNewWindow ==
    [][IF CountReset
       THEN /\ tick'.new_window
            /\ elapsed' = 0
            /\ elapsed >= RATE_PERIOD
       ELSE /\ ~tick'.new_window
            /\ StartUnchanged
            /\ request_count' >= request_count]_vars

\* the window was just restarted for a generator entered at the limit
C19_Witness ==
    /\ tick.new_window
    /\ request_count = 0
    /\ elapsed = 0
    /\ pc = "test"
    /\ ~Top.started

(***************************************************************************)
(* Properties of a run of the main script (Spec).                          *)
(***************************************************************************)
Range(seq) == {seq[i] : i \in 1..Len(seq)}

\* the step read the last page of a project's webhook list, or failed to
EndsWebhookList == pc = "hooks" /\ pc' # "hooks"

\* the webhooks of the page just served whose url is the sink URL
ServedMatches == SelectSeq(last_batch', LAMBDA w : <<w.url>> = port_webhook_url)

\* C6 as claimed: when the reading of a project's webhook list ends, a listed
\* webhook with the sink URL is returned and nothing is created, and without
\* one the creation request is the next request; one creation request is sent.
C6_WebhookDedup ==
    [][/\ EndsWebhookList =>
             /\ matching_webhooks' # <<>> =>
                   (webhooks' = "existing" /\ pc' # "hook_post")
             /\ matching_webhooks' = <<>> => pc' = "hook_post"
       /\ pc = "hook_post" => pc' # "hook_post"]_vars

\* C6, amended: the same when every request of the webhook list succeeded or
\* the list ended with a 404; when a list request fails with another status,
\* nothing is returned and nothing is created.  Every page's matches are the
\* served webhooks whose url is the sink URL.
C6_WebhookDedupAmended ==
    [][/\ (pc = "hooks" /\ gens' # gens) =>
             \/ /\ response'.status = HTTP_OK
                /\ \/ matching_webhooks' = matching_webhooks \o ServedMatches
                   \/ matching_webhooks' = ServedMatches
             \/ /\ response'.status # HTTP_OK
                /\ matching_webhooks' \in {matching_webhooks, <<>>}
       /\ EndsWebhookList =>
             IF response'.status \in {HTTP_OK, HTTP_NOT_FOUND}
             THEN /\ matching_webhooks' # <<>> =>
                        (webhooks' = "existing" /\ pc' # "hook_post")
                  /\ matching_webhooks' = <<>> => pc' = "hook_post"
             ELSE webhooks' = "None" /\ pc' # "hook_post"
       /\ pc = "hook_post" =>
             (pc' # "hook_post" /\ webhooks' \in {"created", "None"})]_vars

\* a webhook with the sink URL was listed and is returned
C6_Witness ==
    /\ webhooks = "existing"
    /\ matching_webhooks = <<Webhook(SINK_URL)>>
    /\ response.status = HTTP_OK
    /\ port_webhook_url = <<SINK_URL>>

\* C7: an HTTP error stops the run only on the primary traversal path (the
\* users, projects, repositories and pull-requests requests).
C7_OnlyPrimaryPathStopsRun ==
    crash.error = "HTTPError" =>
        crash.at \in {"users", "single", "projects", "repos", "prs"}

\* C8: a record lacking a required field fails alone: every pull request of
\* the batch that has its id is upserted, and the run is not stopped.
C8_MappingFailureIsolated ==
    /\ crash.error # "KeyError"
    /\ \A i \in 1..Len(last_batch) :
          ("repository" \in DOMAIN last_batch[i] /\ "id" \in DOMAIN last_batch[i])
          => PullRequestEntity(last_batch[i]) \in Range(mapped)

\* C9: the sink lookup returns the registered URL and creates nothing when it
\* succeeds, is followed by one creation request when it is a 404, and gives no
\* URL and no creation on any other status; a rejected creation gives no URL.
C9_SinkWebhookProvisioning ==
    [][/\ pc = "port_get" =>
             /\ response'.status = HTTP_OK =>
                   (port_webhook_url' = response'.url /\ pc' = "projects")
             /\ response'.status = HTTP_NOT_FOUND => pc' = "port_post"
             /\ response'.status \notin {HTTP_OK, HTTP_NOT_FOUND} =>
                   (port_webhook_url' = None /\ pc' = "projects")
       /\ pc = "port_post" =>
             /\ response.status = HTTP_NOT_FOUND
             /\ pc' = "projects"
             /\ response'.status = HTTP_OK => port_webhook_url' = response'.url
             /\ response'.status # HTTP_OK => port_webhook_url' = None]_vars

\* the creation that followed a 404 lookup was rejected with 442
C9_Witness ==
    /\ pc = "projects"
    /\ response.status = HTTP_INVALID_MAPPING
    /\ port_webhook_url = None

\* the run is past the sink webhook provisioning
Provisioned == pc \notin {"users", "single", "port_get", "port_post"}

\* the model stops following a generator that asks for more than MaxRunPages
Truncated == gens # <<>> /\ Top.n >= MaxRunPages

\* C10: without a sink URL the run never is at a project-webhook request, no
\* call of get_or_create_project_webhook returns a webhook, and the traversal
\* neither stops there nor is stopped by anything but the traversal's own
\* requests and records.
C10_NoUrlSkipsProjectWebhooks ==
    (Provisioned /\ port_webhook_url = None) =>
        /\ pc \notin {"hooks", "hook_post"}
        /\ webhooks \in {"unset", "None"}
        /\ crash.at \notin {"hooks", "hook_post"}
        /\ pc \in {"done", "crashed"} \/ Truncated \/ ENABLED Next

\* the run completed without a sink URL, after two projects were traversed
C10_Witness ==
    /\ pc = "done"
    /\ port_webhook_url = None
    /\ webhooks = "None"
    /\ Len(projects_batch) = 2
    /\ mapped # <<>>
    /\ mapped[1].blueprint = "bitbucketPullrequest"

\* the step sends the first request of the generator on top of the stack
FirstRequest ==
    /\ pc \in FetchPositions
    /\ gens # <<>>
    /\ ~Top.started
    /\ gens' # gens

\* C13: the first request of every get_paginated_resource invocation carries
\* no start parameter, whatever earlier invocations sent.
C13_FirstRequestHasNoStart ==
    [][FirstRequest => StartSent(Top) = None]_vars

\* the projects of the first n keys of the filter, as get_single_project returns them
FetchedByKey(n) == [i \in 1..n |-> Project(filter[i])]

\* with a filter: only filtered keys are fetched, in order, all of them before
\* anything else is done with projects, and no listing generator exists
FilteredSelection ==
    filter # <<>> =>
        /\ \A i \in 1..Len(gens) : gens[i].kind # "projects"
        /\ Len(fetched) <= Len(filter)
        /\ fetched = FetchedByKey(Len(fetched))
        /\ pc \notin {"users", "single", "crashed"} => Len(fetched) = Len(filter)
        /\ projects_batch \in {<<>>, FetchedByKey(Len(filter))}

\* the run was ended by a failed get_single_project: it did nothing after it
AbortedAtFetch ==
    crash.at = "single" =>
        /\ pc = "crashed"
        /\ Len(fetched) < Len(filter)
        /\ projects_batch = <<>>
        /\ repositories_batch = <<>>
        /\ matching_webhooks = <<>>
        /\ port_webhook_url = None
        /\ webhooks = "unset"
        /\ mapped = <<>>

\* C17: with a non-empty filter exactly the filtered keys are fetched by key
\* and no project listing is paginated; a failed fetch of one key ends the
\* run at once: the failing step upserts nothing, no step follows it, and so
\* no project, repository or pull request is upserted and no webhook is
\* looked up or created, also for the keys already fetched.
C17_FilteredFetchAborts ==
    /\ [](FilteredSelection /\ AbortedAtFetch)
    /\ [][/\ pc # "crashed"
           /\ pc = "single" =>
                 IF response'.status = HTTP_OK
                 THEN /\ fetched' = Append(fetched, Project(filter[Len(fetched) + 1]))
                      /\ pc' \in {"single", "port_get"}
                 ELSE pc' = "crashed" /\ crash'.at = "single" /\ fetched' = fetched]_vars

\* the second filtered key failed after the first was fetched
C17_Witness ==
    /\ pc = "crashed"
    /\ crash = [error |-> "HTTPError", at |-> "single"]
    /\ fetched = <<Project("P1")>>
    /\ filter = <<"P1", "P2">>
    /\ response.status = HTTP_SERVER_ERROR

(***************************************************************************)
(* Properties of the mapping (SpecMap).                                    *)
(***************************************************************************)
\* the participants array the source sent for pr, empty when it sent none
Listed(pr) == IF "participants" \in DOMAIN pr THEN pr.participants ELSE <<>>

\* C12: the participants relation of every mapped pull request is the author's
\* email followed by the listed participants' emails in source order,
\* duplicates kept: its length is 1 + the number listed, and it is the
\* one-element author list when `participants` is missing.
C12_ParticipantOrder ==
    pc = "mapped" =>
        /\ Len(mapped) = Len(last_batch)
        /\ \A i \in 1..Len(mapped) :
              LET ps == mapped[i].relations.participants
                  pr == last_batch[i]
              IN  /\ Len(ps) = 1 + Len(Listed(pr))
                  /\ ps[1] = pr.author
                  /\ \A j \in 1..Len(Listed(pr)) : ps[j + 1] = Listed(pr)[j]
                  /\ "participants" \notin DOMAIN pr => ps = <<pr.author>>

\* a participant listed twice, who is also the author, is kept three times
C12_Witness ==
    /\ pc = "mapped"
    /\ Len(mapped) = 2
    /\ mapped[1].relations.participants = <<"u2", "u1", "u2">>
    /\ mapped[2].relations.participants = <<"u1">>
    /\ "participants" \notin DOMAIN last_batch[2]

(***************************************************************************)
(* Properties of two runs against one fixed source (SpecSync).             *)
(***************************************************************************)
\* the upserts of a journal, in order
UpsertsOf(j) == SelectSeq(j, LAMBDA e : e.kind = "upsert")

\* the webhook calls of the given kind in a journal
CallsOf(j, kind) == SelectSeq(j, LAMBDA e : e.kind = kind)

\* C11: the second run against the same source upserts what the first run
\* upserted: at any moment the same entities from the same source objects in
\* the same order so far, and all of them once it has ended.
C11_SameUpsertsOnRerun ==
    run = 2 =>
        LET before == UpsertsOf(first)
            again == UpsertsOf(journal)
        IN  /\ Len(again) <= Len(before)
            /\ again = SubSeq(before, 1, Len(again))
            /\ pc \in {"done", "crashed"} => again = before

\* a second run has ended: it upserted users, projects, repositories and the
\* pull requests of two pages as the first did, but created no webhook, which
\* the first run had done
C11_Witness ==
    /\ run = 2
    /\ pc = "done"
    /\ UpsertsOf(journal) = UpsertsOf(first)
    /\ \E i \in 1..Len(journal) :
          /\ journal[i].kind = "upsert"
          /\ journal[i].entity.blueprint = "bitbucketPullrequest"
          /\ journal[i].entity.identifier = "2"
    /\ CallsOf(first, "create") # <<>>
    /\ CallsOf(journal, "create") = <<>>

\* entry i of the journal is the upsert of an entity of the blueprint
IsUpsert(i, blueprint) ==
    /\ journal[i].kind = "upsert"
    /\ journal[i].entity.blueprint = blueprint

\* entry i upserts a repository or a pull request of project k
UpsertsInProject(i, k) ==
    /\ IsUpsert(i, "bitbucketRepository") \/ IsUpsert(i, "bitbucketPullrequest")
    /\ journal[i].object.project = k

\* C15: in the journal of a run every user upsert precedes every project
\* upsert; a repository is upserted after its project's entity, a pull request
\* after its repository's entity; and whatever repository or pull request of a
\* project is upserted after the provisioning of the project's webhook has
\* started had been upserted before it started.
C15_TraversalOrder ==
    \A j \in 1..Len(journal) :
        /\ IsUpsert(j, "bitbucketUser") =>
              \A i \in 1..(j - 1) : ~IsUpsert(i, "bitbucketProject")
        /\ IsUpsert(j, "bitbucketRepository") =>
              \E i \in 1..(j - 1) :
                  /\ IsUpsert(i, "bitbucketProject")
                  /\ journal[i].object.key = journal[j].object.project
        /\ IsUpsert(j, "bitbucketPullrequest") =>
              \E i \in 1..(j - 1) :
                  /\ IsUpsert(i, "bitbucketRepository")
                  /\ journal[i].object.slug = journal[j].object.repository
                  /\ journal[i].object.project = journal[j].object.project
        /\ journal[j].kind = "provision" =>
              \A l \in (j + 1)..Len(journal) :
                  UpsertsInProject(l, journal[j].object.key) =>
                      \E i \in 1..(j - 1) : journal[i] = journal[l]

\* a run that upserted a user, then P1, then a repository of P1, then a pull
\* request of it, then started the provisioning of P1's webhook, and went on
\* to P2
C15_Witness ==
    /\ pc = "done"
    /\ \E a, b, c, d, e \in 1..Len(journal) :
          /\ a < b /\ b < c /\ c < d /\ d < e
          /\ IsUpsert(a, "bitbucketUser")
          /\ IsUpsert(b, "bitbucketProject")
          /\ journal[b].object.key = "P1"
          /\ UpsertsInProject(c, "P1")
          /\ IsUpsert(c, "bitbucketPullrequest")
          /\ journal[d] = Call("provision", "P1")
          /\ UpsertsInProject(e, "P2")

\* the creations the source accepted for project k, in both runs
CreationsFor(k) ==
    SelectSeq(first \o journal, LAMBDA e : e = Call("create", k))

\* the run is about to send a creation request for the project it visits
AboutToCreate == pc = "hook_post"

\* the last step completed the reading of that project's webhooks, and the
\* reading found no webhook with the sink URL
ReadFoundNone ==
    /\ response.status \in {HTTP_OK, HTTP_NOT_FOUND}
    /\ matching_webhooks = <<>>
    /\ \A i \in 1..Len(last_batch) : last_batch[i] # Webhook(SINK_URL)
    /\ CallsOf(journal, "provision") # <<>>
    /\ LET reads == CallsOf(journal, "provision")
       IN  reads[Len(reads)] = Call("provision", projects_batch[pi].key)

\* C16: for every project at most one registration with the sink URL is
\* created, and a creation request is sent only right after a completed read
\* of the project's webhooks that found none with that URL and for a project
\* for which none was created before; also when a key is visited twice.
C16_OneRegistrationPerProject ==
    /\ \A k \in Keys : Len(CreationsFor(k)) <= 1
    /\ AboutToCreate =>
          /\ ReadFoundNone
          /\ projects_batch[pi].key \notin created
          /\ port_webhook_url = <<SINK_URL>>

\* P1 was visited twice in one run: its webhooks were read twice, one
\* registration was created, and the second visit returned the existing one
C16_Witness ==
    /\ pc = "done"
    /\ run = 1
    /\ projects_batch = <<Project("P1"), Project("P1")>>
    /\ CallsOf(journal, "provision") = <<Call("provision", "P1"), Call("provision", "P1")>>
    /\ CallsOf(journal, "create") = <<Call("create", "P1")>>
    /\ webhooks = "existing"

\* C18: no two distinct source objects are upserted under the same
\* (blueprint, identifier) pair in one run.
C18_IdentifiersUnique ==
    \A i, j \in 1..Len(journal) :
        (/\ journal[i].kind = "upsert"
         /\ journal[j].kind = "upsert"
         /\ journal[i].entity.blueprint = journal[j].entity.blueprint
         /\ journal[i].entity.identifier = journal[j].entity.identifier)
        => journal[i].object = journal[j].object

=============================================================================
